---- MODULE Spec2Model ----
(***************************************************************************)
(* Model of youtube-overlay-server:                                        *)
(*   - twitchTokenMiddleware (src/src/middlewares/twitchTokenMiddleware.ts)*)
(*     the process-wide app-token cache;                                   *)
(*   - fetchFollowedStreams / refreshAccessToken (utils/twitchApi.ts,      *)
(*     src/unnamed/part_001): the user-token refresh-and-retry protocol;   *)
(*   - the GET /channels/:name handler (src/src/index.ts) with             *)
(*     fetchUserData, fetchStreamData and fetchChannelData;                *)
(*   - searchStreams (src/unnamed/part_001): the search fan-out and sort.  *)
(* Every `await` of the source is a suspension point: a handler is cut     *)
(* into one action per stretch of code between two awaits (the two awaits  *)
(* inside one fetchUserData of the fan-out are taken as one step).         *)
(* The history variables issuedAt, handed, gen and trace record what the   *)
(* properties speak about; no action reads them to decide what to do.      *)
(***************************************************************************)
EXTENDS Integers, Sequences, FiniteSets, TLC

VARIABLES
  now,              \* Date.now(), the wall clock in ms
  cachedToken,      \* twitchTokenMiddleware.ts:6   (module-level let)
  tokenExpiryTime,  \* twitchTokenMiddleware.ts:7   (module-level let)
  issuedAt,         \* history: Date.now() at the line that stored cachedToken
  mpc,              \* per request: position in the middleware
  mdata,            \* per request: `data`, the parsed token response (line 50)
  twitch,           \* per request: c.get('twitch'), the credential handed on
  handed,           \* history: how and with what validity twitch was handed
  account,          \* the account store's row for (accountId, 'twitch'), or Null
  fpc,              \* per call: position in fetchFollowedStreams
  userAccessToken,  \* per call: the parameter of the innermost invocation
  found,            \* per call: `account`, the result of findFirst (line 253)
  twitchData,       \* per call: the refresh response body (line 271)
  followedStreams,  \* per call: the parsed followed-streams list (line 303)
  userData,         \* per call: per list index, the profile fetch (line 309)
  result,           \* per call: what the call returned or threw
  gen,              \* per call: token responses the upstream gave it so far
  trace,            \* history, per call: its upstream calls and store accesses
  gpc,              \* per lookup: position in the GET /channels/:name handler
  chanName,         \* per lookup: `name` (index.ts:177)
  chanUser,         \* per lookup: `userData` (index.ts:180)
  chanStream,       \* per lookup: `streamData` (index.ts:190)
  chanChannel,      \* per lookup: `channelData` (index.ts:211)
  chanResult,       \* per lookup: what the handler returned or threw
  chanLog,          \* history, per lookup: its upstream requests and outcomes
  spc,              \* position in searchStreams
  searchData,       \* `searchData`, the parsed search results (line 166)
  streamData,       \* per result index: the fetchStreamData call (line 172)
  searchResult      \* what searchStreams returned or threw

vars ==
  <<now, cachedToken, tokenExpiryTime, issuedAt, mpc, mdata, twitch, handed,
    account, fpc, userAccessToken, found, twitchData, followedStreams,
    userData, result, gen, trace, gpc, chanName, chanUser, chanStream,
    chanChannel, chanResult, chanLog, spc, searchData, streamData, searchResult>>

cacheOnly == <<cachedToken, tokenExpiryTime, issuedAt, mpc, mdata, twitch, handed>>
followOnly ==
  <<account, fpc, userAccessToken, found, twitchData, followedStreams,
    userData, result, gen, trace>>
channelOnly ==
  <<gpc, chanName, chanUser, chanStream, chanChannel, chanResult, chanLog>>
searchOnly == <<spc, searchData, streamData, searchResult>>

\* null / undefined. A nullable number n is held as [ms |-> n].
Null == [none |-> TRUE]
Ms(n) == [ms |-> n]

----------------------------------------------------------------------------
(* Program constants *)

MAX_CACHE_DURATION == 24 * 60 * 60 * 1000
EXPIRY_BUFFER == 60 * 1000

----------------------------------------------------------------------------
(* Bounds of the model *)

\* The middleware invocations that may be running at once (request slots).
Reqs == {"r1", "r2"}

\* The clock moves on a grid of half buffers: MaxTicks grid points after
\* time 0 and MaxTicks on either side of the 24 h cap.
Tick == EXPIRY_BUFFER \div 2
MaxTicks == 4
TimePoints ==
  {k * Tick : k \in 0..MaxTicks}
    \cup {MAX_CACHE_DURATION + k * Tick : k \in (0 - MaxTicks)..MaxTicks}

\* expires_in (seconds) the token endpoint may report: shorter than the
\* buffer, a few buffers long, and longer than the 24 h cap.
ExpiresInValues == {30, 150, 2 * 24 * 60 * 60}

\* access_token strings the token endpoint may issue.
MaxAppTok == 2
AppTokens == 1..MaxAppTok

----------------------------------------------------------------------------
(* twitchTokenMiddleware *)

Min(a, b) == IF a < b THEN a ELSE b

\* line 52: Math.min(data.expires_in * 1000, MAX_CACHE_DURATION)
ExpiresInMs(data) == Min(data.expires_in * 1000, MAX_CACHE_DURATION)

\* line 54: Date.now() + expiresInMs - EXPIRY_BUFFER
NewExpiryTime(t, data) == t + ExpiresInMs(data) - EXPIRY_BUFFER

\* JavaScript truthiness of `number | null` (line 24): null and 0 are falsy.
Truthy(x) == x # Null /\ x.ms # 0

\* CacheHit with the buffer added to the expiry time instead of subtracted.
CacheHit_BufferAdded(currentTime) ==
  /\ cachedToken # Null
  /\ Truthy(tokenExpiryTime)
  /\ currentTime < tokenExpiryTime.ms + EXPIRY_BUFFER

\* lines 22-26: the cache-hit condition
CacheHit(currentTime) ==
  /\ cachedToken # Null
  /\ Truthy(tokenExpiryTime)
  /\ currentTime < tokenExpiryTime.ms - EXPIRY_BUFFER

\* The clock advances (between any two steps of any request).
ClockAdvance ==
  /\ \E t \in TimePoints : t > now /\ now' = t
  /\ UNCHANGED <<cachedToken, tokenExpiryTime, issuedAt, mpc, mdata, twitch, handed>>
  /\ UNCHANGED <<followOnly, channelOnly, searchOnly>>

\* lines 20-30: a request enters the middleware and is served from the cache.
ServeFromCache(r) ==
  /\ mpc[r] = "idle"
  /\ CacheHit(now)
  /\ twitch' = [twitch EXCEPT ![r] = cachedToken]
  /\ handed' = [handed EXCEPT ![r] =
                  [from |-> "cache",
                   remaining |-> issuedAt.ms + cachedToken.expires_in * 1000 - now,
                   age |-> now - issuedAt.ms]]
  /\ mpc' = [mpc EXCEPT ![r] = "next"]
  /\ UNCHANGED <<now, cachedToken, tokenExpiryTime, issuedAt, mdata>>
  /\ UNCHANGED <<followOnly, channelOnly, searchOnly>>

\* lines 20-42: a request enters the middleware, misses the cache and issues
\* the token request; it is suspended in `await fetch(...)`.
IssueTokenRequest(r) ==
  /\ mpc[r] = "idle"
  /\ ~CacheHit(now)
  /\ mpc' = [mpc EXCEPT ![r] = "fetch"]
  /\ UNCHANGED <<now, cachedToken, tokenExpiryTime, issuedAt, mdata, twitch, handed>>
  /\ UNCHANGED <<followOnly, channelOnly, searchOnly>>

\* TokenRequestFails dropping the cached credential on a failure.
TokenRequestFails_ClearsCache(r) ==
  /\ mpc[r] = "fetch"
  /\ mpc' = [mpc EXCEPT ![r] = "failed"]
  /\ cachedToken' = Null
  /\ tokenExpiryTime' = Null
  /\ UNCHANGED <<now, issuedAt, mdata, twitch, handed>>
  /\ UNCHANGED <<followOnly, channelOnly, searchOnly>>

\* lines 44-48: the token endpoint answered with a non-success status.
TokenRequestFails(r) ==
  /\ mpc[r] = "fetch"
  /\ mpc' = [mpc EXCEPT ![r] = "failed"]
  /\ UNCHANGED <<now, cachedToken, tokenExpiryTime, issuedAt, mdata, twitch, handed>>
  /\ UNCHANGED <<followOnly, channelOnly, searchOnly>>

\* lines 44, 50: the token endpoint answered 2xx; the request is suspended in
\* `await response.json()`, which will yield the body chosen here.
TokenRequestOk(r) ==
  /\ mpc[r] = "fetch"
  /\ \E tok \in AppTokens, e \in ExpiresInValues :
       mdata' = [mdata EXCEPT ![r] = [access_token |-> tok, expires_in |-> e]]
  /\ mpc' = [mpc EXCEPT ![r] = "json"]
  /\ UNCHANGED <<now, cachedToken, tokenExpiryTime, issuedAt, twitch, handed>>
  /\ UNCHANGED <<followOnly, channelOnly, searchOnly>>

\* lines 50-63: the body is parsed, the cache is replaced and the fresh
\* credential is handed to the downstream handler.
StoreToken(r) ==
  /\ mpc[r] = "json"
  /\ cachedToken' = mdata[r]
  /\ tokenExpiryTime' = Ms(NewExpiryTime(now, mdata[r]))
  /\ issuedAt' = Ms(now)
  /\ twitch' = [twitch EXCEPT ![r] = mdata[r]]
  /\ handed' = [handed EXCEPT ![r] =
                  [from |-> "fresh",
                   remaining |-> mdata[r].expires_in * 1000,
                   age |-> 0]]
  /\ mdata' = [mdata EXCEPT ![r] = Null]
  /\ mpc' = [mpc EXCEPT ![r] = "next"]
  /\ UNCHANGED now
  /\ UNCHANGED <<followOnly, channelOnly, searchOnly>>

\* lines 28-29, 63: the downstream handler returns and the request ends; or
\* the failed request has been answered. The slot is free for a new request.
RequestEnds(r) ==
  /\ mpc[r] \in {"next", "failed"}
  /\ mpc' = [mpc EXCEPT ![r] = "idle"]
  /\ twitch' = [twitch EXCEPT ![r] = Null]
  /\ handed' = [handed EXCEPT ![r] = Null]
  /\ UNCHANGED <<now, cachedToken, tokenExpiryTime, issuedAt, mdata>>
  /\ UNCHANGED <<followOnly, channelOnly, searchOnly>>

CacheNext ==
  \/ ClockAdvance
  \/ \E r \in Reqs : ServeFromCache(r)
  \/ \E r \in Reqs : IssueTokenRequest(r)
  \/ \E r \in Reqs : TokenRequestFails(r)
  \/ \E r \in Reqs : TokenRequestOk(r)
  \/ \E r \in Reqs : StoreToken(r)
  \/ \E r \in Reqs : RequestEnds(r)

----------------------------------------------------------------------------
(* fetchFollowedStreams and refreshAccessToken *)

\* The concurrent calls for the one account id.
Calls == {1, 2}

\* A falsy token string (null or ''), and an absent (undefined) field.
NoToken == 0

\* Token pairs: the pair issued at login is InitPair; the n-th token response
\* given to call c carries access token and refresh token PairId(c, n). From
\* MaxGen on, the responses to one call are no longer told apart.
InitPair == 1
MaxGen == 1
PairId(c, n) == InitPair + (c - 1) * MaxGen + Min(n, MaxGen)

\* History records at most MaxTrace events of one call.
MaxTrace == 10

\* Statuses of the followed-streams endpoint and of the token endpoint.
FollowedStatuses == {200, 401, 500}
RefreshStatuses == {200, 400, 401, 500}

\* expires_in (seconds) of a refreshed user token.
UserExpiresIn == 4 * 60 * 60

\* The followed-streams records the upstream may return, by login.
Logins == {"a", "b"}
MaxStreams == 2
FollowedRecord(login) ==
  [user_id |-> IF login = "a" THEN "ida" ELSE "idb",
   user_login |-> login,
   user_name |-> IF login = "a" THEN "A" ELSE "B",
   game_name |-> IF login = "a" THEN "chess" ELSE "go",
   title |-> IF login = "a" THEN "title a" ELSE "title b",
   type |-> "live",
   viewer_count |-> IF login = "a" THEN 5 ELSE 50]
ProfileImage(login) == IF login = "a" THEN "img a" ELSE "img b"
FollowedLists ==
  {l \in UNION {[1..n -> Logins] : n \in 0..MaxStreams} :
     \A i, j \in DOMAIN l : i # j => l[i] # l[j]}

Event(e, a) == [ev |-> e, arg |-> a]
Log(c, e, a) ==
  IF Len(trace[c]) < MaxTrace THEN Append(trace[c], Event(e, a)) ELSE trace[c]
Log2(c, e1, a1, e2, a2) ==
  LET t1 == Log(c, e1, a1)
  IN  IF Len(t1) < MaxTrace THEN Append(t1, Event(e2, a2)) ELSE t1

\* What a call ends with: a list of Streamers, or the exception thrown.
Returned(list) == [kind |-> "Streamers", status |-> 200, value |-> list]
Thrown(kind, status) == [kind |-> kind, status |-> status, value |-> <<>>]

\* The user links the platform account (the login flow, outside this code,
\* writes the row): the pair issued at login, with or without refresh token.
AccountLinked ==
  /\ account = Null
  /\ \E r \in {NoToken, InitPair} :
       account' = [accessToken |-> InitPair, refreshToken |-> r,
                   accessTokenExpiresAt |-> now + UserExpiresIn * 1000]
  /\ UNCHANGED <<now, fpc, userAccessToken, found, twitchData, followedStreams,
                 userData, result, gen, trace>>
  /\ UNCHANGED <<cacheOnly, channelOnly, searchOnly>>

\* The access tokens a caller may pass: the one issued at login or the one
\* the store holds now.
CallerTokens ==
  {InitPair} \cup (IF account = Null THEN {} ELSE {account.accessToken})

\* lines 233-248: the call starts and issues the followed-streams request.
CallStarts(c) ==
  /\ fpc[c] = "idle"
  /\ \E t \in CallerTokens :
       /\ userAccessToken' = [userAccessToken EXCEPT ![c] = t]
       /\ trace' = [trace EXCEPT ![c] = Log(c, "followed", t)]
  /\ fpc' = [fpc EXCEPT ![c] = "fetch"]
  /\ UNCHANGED <<now, account, found, twitchData, followedStreams, userData, result, gen>>
  /\ UNCHANGED <<cacheOnly, channelOnly, searchOnly>>

\* A call ends, returning or throwing res: its locals go out of scope.
Ends(c, res) ==
  /\ fpc' = [fpc EXCEPT ![c] = "done"]
  /\ result' = [result EXCEPT ![c] = res]
  /\ userAccessToken' = [userAccessToken EXCEPT ![c] = NoToken]
  /\ found' = [found EXCEPT ![c] = Null]
  /\ twitchData' = [twitchData EXCEPT ![c] = Null]
  /\ followedStreams' = [followedStreams EXCEPT ![c] = <<>>]
  /\ userData' = [userData EXCEPT ![c] = <<>>]

\* A call moves on to position pc, its locals unchanged.
Goes(c, pc) ==
  /\ fpc' = [fpc EXCEPT ![c] = pc]
  /\ UNCHANGED <<result, userAccessToken, found, twitchData, followedStreams, userData>>

\* line 250: !response.ok
NotOk(status) == status < 200 \/ status > 299

\* IsAuthFailure taking every non-success status for an expired token.
IsAuthFailure_AnyFailure(status) == status # 200

\* IsAuthFailure taking the server errors for an expired token.
IsAuthFailure_ServerError(status) == status >= 500

\* line 252: response.status === 401
IsAuthFailure(status) == status = 401

\* lines 250-262, 296-303: the followed-streams endpoint answers. 2xx: parse
\* the body; 401: look the account up; anything else: throw.
FollowedResponse(c, status) ==
  /\ fpc[c] = "fetch"
  /\ trace' = [trace EXCEPT ![c] = Log(c, "status", status)]
  /\ IF ~NotOk(status)
        THEN Goes(c, "json")
        ELSE IF IsAuthFailure(status)
          THEN Goes(c, "find")
          ELSE Ends(c, Thrown("UpstreamError", 500))
  /\ UNCHANGED <<now, account, gen>>
  /\ UNCHANGED <<cacheOnly, channelOnly, searchOnly>>

\* NoRefreshToken without the test of the row's refreshToken.
NoRefreshToken_RowOnly(acc) == acc = Null

\* line 264: !account || !account.refreshToken
NoRefreshToken(acc) == acc = Null \/ acc.refreshToken = NoToken

\* lines 253-271, 331-339: findFirst resolves. No usable refresh token: throw;
\* otherwise refreshAccessToken issues the token request with it.
FindAccountDone(c) ==
  /\ fpc[c] = "find"
  /\ IF NoRefreshToken(account)
        THEN /\ Ends(c, Thrown("MissingRefreshToken", 500))
             /\ trace' = [trace EXCEPT ![c] = Log(c, "find", NoToken)]
        ELSE /\ fpc' = [fpc EXCEPT ![c] = "refresh"]
             /\ found' = [found EXCEPT ![c] = account]
             /\ UNCHANGED <<result, userAccessToken, twitchData, followedStreams, userData>>
             /\ trace' = [trace EXCEPT ![c] =
                            Log2(c, "find", account.refreshToken,
                                    "refresh", account.refreshToken)]
  /\ UNCHANGED <<now, account, gen>>
  /\ UNCHANGED <<cacheOnly, channelOnly, searchOnly>>

\* RefreshFailure without the 400 branch: one generic error for all.
RefreshFailure_Generic(status) == Thrown("UpstreamError", 500)

\* RefreshFailure handing on the status of the token endpoint.
RefreshFailure_PassStatus(status) ==
  Thrown(IF status = 401 THEN "AuthorizationError" ELSE "UpstreamError", status)

\* lines 341-350: what refreshAccessToken throws on a non-success status
RefreshFailure(status) ==
  IF status = 400
    THEN Thrown("InvalidRefreshToken", 400)
    ELSE Thrown("UpstreamError", 500)

\* lines 341-352, 271: the token endpoint answers the refresh request. The
\* exception of refreshAccessToken passes through fetchFollowedStreams.
RefreshResponse(c, status) ==
  /\ fpc[c] = "refresh"
  /\ trace' = [trace EXCEPT ![c] = Log(c, "refreshStatus", status)]
  /\ IF ~NotOk(status)
        THEN Goes(c, "refreshJson")
        ELSE Ends(c, RefreshFailure(status))
  /\ UNCHANGED <<now, account, gen>>
  /\ UNCHANGED <<cacheOnly, channelOnly, searchOnly>>

\* The bodies a 2xx token response may carry: the new pair, the new access
\* token without a refresh_token, or JSON null.
RefreshBodies(c) ==
  LET k == PairId(c, gen[c] + 1)
  IN  {[access_token |-> k, refresh_token |-> k, expires_in |-> UserExpiresIn],
       [access_token |-> k, refresh_token |-> NoToken, expires_in |-> UserExpiresIn],
       Null}

\* lines 352-353, 271-290: the body is parsed and returned; a null body
\* throws, any other one is handed to prisma.account.update.
RefreshJsonDone(c) ==
  /\ fpc[c] = "refreshJson"
  /\ \E body \in RefreshBodies(c) :
       IF body = Null
         THEN Ends(c, Thrown("UpstreamError", 500))
         ELSE /\ fpc' = [fpc EXCEPT ![c] = "update"]
              /\ twitchData' = [twitchData EXCEPT ![c] = body]
              /\ UNCHANGED <<result, userAccessToken, found, followedStreams, userData>>
  /\ gen' = [gen EXCEPT ![c] = Min(gen[c] + 1, MaxGen)]
  /\ UNCHANGED <<now, account, trace>>
  /\ UNCHANGED <<cacheOnly, channelOnly, searchOnly>>

\* lines 279-290: the row after prisma.account.update; a field given as
\* undefined is left as it is.
UpdatedAccount(acc, data, t) ==
  [accessToken |-> data.access_token,
   refreshToken |-> IF data.refresh_token = NoToken
                      THEN acc.refreshToken
                      ELSE data.refresh_token,
   accessTokenExpiresAt |-> t + data.expires_in * 1000]

\* RetryToken passing the token the invocation was called with.
RetryToken_Stale(old, data) == old

\* lines 292-295: the userAccessToken of the recursive call
RetryToken(old, data) == data.access_token

\* lines 279-295, 240-248: the update resolves and fetchFollowedStreams calls
\* itself with the new access token: the inner invocation, with locals of
\* its own, issues the followed-streams request.
UpdateDone(c) ==
  /\ fpc[c] = "update"
  /\ account' = UpdatedAccount(account, twitchData[c], now)
  /\ userAccessToken' =
       [userAccessToken EXCEPT ![c] = RetryToken(userAccessToken[c], twitchData[c])]
  /\ found' = [found EXCEPT ![c] = Null]
  /\ twitchData' = [twitchData EXCEPT ![c] = Null]
  /\ trace' = [trace EXCEPT ![c] =
                 Log2(c, "write", twitchData[c].access_token,
                         "followed", RetryToken(userAccessToken[c], twitchData[c]))]
  /\ fpc' = [fpc EXCEPT ![c] = "fetch"]
  /\ UNCHANGED <<now, followedStreams, userData, result, gen>>
  /\ UNCHANGED <<cacheOnly, channelOnly, searchOnly>>

\* One fetchUserData call of the fan-out: in flight, or resolved with the
\* user record.
Pending == [at |-> "fetch", user |-> Null]
Resolved(user) == [at |-> "resolved", user |-> user]

\* The user record of the users endpoint for a login (UserData, lines 5-16).
UserRecord(login) ==
  [id |-> FollowedRecord(login).user_id,
   login |-> login,
   display_name |-> FollowedRecord(login).user_name,
   profile_image_url |-> ProfileImage(login)]

\* lines 303-312, 90-98: the followed-streams body is parsed and one
\* fetchUserData request per stream is issued, all with userAccessToken.
FollowedJsonDone(c) ==
  /\ fpc[c] = "json"
  /\ \E l \in FollowedLists :
       /\ followedStreams' =
            [followedStreams EXCEPT ![c] = [i \in DOMAIN l |-> FollowedRecord(l[i])]]
       /\ userData' = [userData EXCEPT ![c] = [i \in DOMAIN l |-> Pending]]
       /\ trace' = [trace EXCEPT ![c] =
                      IF l = <<>> THEN trace[c] ELSE Log(c, "users", userAccessToken[c])]
  /\ fpc' = [fpc EXCEPT ![c] = "fanout"]
  /\ UNCHANGED <<now, account, userAccessToken, found, twitchData, result, gen>>
  /\ UNCHANGED <<cacheOnly, channelOnly, searchOnly>>

\* FollowedStreamer built like the Streamer of a channel without a stream.
FollowedStreamer_Offline(stream, user) ==
  [channelId |-> stream.user_id,
   displayName |-> stream.user_name,
   loginName |-> stream.user_login,
   profileImageUrl |-> user.profile_image_url,
   gameName |-> stream.game_name,
   viewers |-> 0,
   isLive |-> FALSE,
   title |-> stream.title]

\* lines 314-323: the Streamer of one followed stream and its user record
FollowedStreamer(stream, user) ==
  [channelId |-> stream.user_id,
   displayName |-> stream.user_name,
   loginName |-> stream.user_login,
   profileImageUrl |-> user.profile_image_url,
   gameName |-> stream.game_name,
   viewers |-> stream.viewer_count,
   isLive |-> TRUE,
   title |-> stream.title]

\* What one request to the users endpoint comes to: a non-success status,
\* a 2xx body with the login's record, or a 2xx body with no record.
UserOutcomes == {"500", "record", "empty"}

\* UserDataFailure swallowed: the call answers with an empty list.
UserDataFailure_EmptyList == Returned(<<>>)

\* lines 100-104: what fetchUserData throws on a non-success status
UserDataFailure == Thrown("UpstreamError", 500)

\* lines 100-110, 309-318: fetchUserData i resolves (its response and the
\* parse of its body touch nothing another step reads, so they are one step
\* here). A non-success status throws, which rejects Promise.all and so the
\* call; an empty body makes data[0] undefined, and reading
\* profile_image_url of undefined throws a TypeError, which rejects it too.
UserResolved(c, i, outcome) ==
  /\ fpc[c] = "fanout"
  /\ i \in DOMAIN userData[c]
  /\ userData[c][i] = Pending
  /\ CASE outcome = "500" -> Ends(c, UserDataFailure)
       [] outcome = "empty" -> Ends(c, Thrown("TypeError", 500))
       [] OTHER ->
            /\ userData' =
                 [userData EXCEPT ![c][i] =
                    Resolved(UserRecord(followedStreams[c][i].user_login))]
            /\ UNCHANGED <<fpc, result, userAccessToken, found, twitchData, followedStreams>>
  /\ UNCHANGED <<now, account, gen, trace>>
  /\ UNCHANGED <<cacheOnly, channelOnly, searchOnly>>

\* lines 307-327: every callback has returned its Streamer; Promise.all
\* resolves with them in list order and the call returns the list.
FanoutDone(c) ==
  /\ fpc[c] = "fanout"
  /\ \A i \in DOMAIN userData[c] : userData[c][i].at = "resolved"
  /\ Ends(c, Returned([i \in DOMAIN followedStreams[c] |->
                         FollowedStreamer(followedStreams[c][i], userData[c][i].user)]))
  /\ UNCHANGED <<now, account, gen, trace>>
  /\ UNCHANGED <<cacheOnly, channelOnly, searchOnly>>

FollowNext ==
  \/ AccountLinked
  \/ \E c \in Calls : CallStarts(c)
  \/ \E c \in Calls, status \in FollowedStatuses : FollowedResponse(c, status)
  \/ \E c \in Calls : FindAccountDone(c)
  \/ \E c \in Calls, status \in RefreshStatuses : RefreshResponse(c, status)
  \/ \E c \in Calls : RefreshJsonDone(c)
  \/ \E c \in Calls : UpdateDone(c)
  \/ \E c \in Calls : FollowedJsonDone(c)
  \/ \E c \in Calls, i \in 1..MaxStreams, o \in UserOutcomes : UserResolved(c, i, o)
  \/ \E c \in Calls : FanoutDone(c)

----------------------------------------------------------------------------
(* GET /channels/:name: fetchUserData, fetchStreamData, fetchChannelData *)

\* The handler invocations that may be running at once.
Lookups == {"g1", "g2"}

\* Statuses of the users, streams, channels and search endpoints.
HelixStatuses == {200, 401, 500}

\* The stream and channel records the upstream may hold for a user id
\* (StreamData, lines 18-33; ChannelData, lines 35-47).
StreamTypes == {"live", ""}
ViewerCounts == {0, 5, 50, 120}
StreamTitle(id) ==
  CASE id = "ida" -> "stream a" [] id = "idb" -> "stream b"
    [] id = "idc" -> "stream c" [] OTHER -> "stream d"
StreamRecord(id, type, viewers) ==
  [user_id |-> id,
   game_name |-> "game of stream",
   title |-> StreamTitle(id),
   type |-> type,
   viewer_count |-> viewers]
StreamRecords(id) ==
  {StreamRecord(id, type, viewers) : type \in StreamTypes, viewers \in ViewerCounts}
ChannelRecord(id) ==
  [broadcaster_id |-> id,
   game_name |-> "game of channel",
   title |-> "title of channel"]

\* The `data` arrays a 2xx body may carry: empty, or one record.
DataArrays(records) == {<<>>} \cup {<<r>> : r \in records}

\* lines 110, 140, 220: data[0], undefined for an empty array
First(data) == IF data = <<>> THEN Null ELSE data[1]

\* The handler returns c.json({ streamer }).
ReturnedOne(streamer) == [kind |-> "Streamer", status |-> 200, value |-> streamer]

\* NotFoundError raised as any other upstream failure.
NotFoundError_AsUpstream == Thrown("UpstreamError", 500)

\* errors.ts lines 9-13: NotFoundError is HTTPException 404
NotFoundError == Thrown("NotFound", 404)

\* History: a request is sent, and the last request sent is answered.
Sent(g, req) == Append(chanLog[g], [req |-> req, outcome |-> "sent"])
Answered(g, outcome) ==
  [chanLog[g] EXCEPT ![Len(chanLog[g])] = [req |-> @.req, outcome |-> outcome]]

\* The handler ends, returning or throwing res.
Responds(g, res) ==
  /\ gpc' = [gpc EXCEPT ![g] = "done"]
  /\ chanResult' = [chanResult EXCEPT ![g] = res]

\* index.ts lines 176-183, part_001 lines 90-98: the handler starts and
\* fetchUserData issues the users request for the name of the route.
LookupStarts(g) ==
  /\ gpc[g] = "idle"
  /\ \E name \in Logins : chanName' = [chanName EXCEPT ![g] = name]
  /\ chanLog' = [chanLog EXCEPT ![g] = Sent(g, "users")]
  /\ gpc' = [gpc EXCEPT ![g] = "user"]
  /\ UNCHANGED <<chanUser, chanStream, chanChannel, chanResult>>
  /\ UNCHANGED <<now, cacheOnly, followOnly, searchOnly>>

\* lines 100-106, 130-136, 210-216 of part_001: an endpoint answers the
\* request the handler awaits at position at; a non-success status throws
\* HTTPException 500, a 2xx one goes on to parse the body at position next.
HelixResponse(g, at, next, status) ==
  /\ gpc[g] = at
  /\ IF NotOk(status)
       THEN /\ Responds(g, Thrown("UpstreamError", 500))
            /\ chanLog' = [chanLog EXCEPT ![g] = Answered(g, "failed")]
       ELSE /\ gpc' = [gpc EXCEPT ![g] = next]
            /\ chanLog' = [chanLog EXCEPT ![g] = Answered(g, "ok")]
            /\ UNCHANGED chanResult
  /\ UNCHANGED <<chanName, chanUser, chanStream, chanChannel>>
  /\ UNCHANGED <<now, cacheOnly, followOnly, searchOnly>>

UserResponse(g, status) == HelixResponse(g, "user", "userJson", status)

\* part_001 lines 106-110, index.ts lines 180-193: fetchUserData returns
\* data[0]; without a user the handler throws NotFoundError, otherwise
\* fetchStreamData issues the streams request for the user's id.
UserJsonDone(g) ==
  /\ gpc[g] = "userJson"
  /\ \E data \in DataArrays({UserRecord(chanName[g])}) :
       /\ chanUser' = [chanUser EXCEPT ![g] = First(data)]
       /\ IF First(data) = Null
            THEN /\ Responds(g, NotFoundError)
                 /\ chanLog' = [chanLog EXCEPT ![g] = Answered(g, "empty")]
            ELSE /\ gpc' = [gpc EXCEPT ![g] = "stream"]
                 /\ chanLog' = [chanLog EXCEPT ![g] =
                                  Append(Answered(g, "record"),
                                         [req |-> "streams", outcome |-> "sent"])]
                 /\ UNCHANGED chanResult
  /\ UNCHANGED <<chanName, chanStream, chanChannel>>
  /\ UNCHANGED <<now, cacheOnly, followOnly, searchOnly>>

StreamResponse(g, status) == HelixResponse(g, "stream", "streamJson", status)

\* StreamStreamer with the values of a channel that has no stream.
StreamStreamer_Offline(user, stream) ==
  [channelId |-> user.id,
   displayName |-> user.display_name,
   loginName |-> user.login,
   profileImageUrl |-> user.profile_image_url,
   gameName |-> stream.game_name,
   viewers |-> 0,
   isLive |-> FALSE,
   title |-> stream.title]

\* index.ts lines 196-205: the Streamer of a user and its stream
StreamStreamer(user, stream) ==
  [channelId |-> user.id,
   displayName |-> user.display_name,
   loginName |-> user.login,
   profileImageUrl |-> user.profile_image_url,
   gameName |-> stream.game_name,
   viewers |-> stream.viewer_count,
   isLive |-> (stream.type = "live"),
   title |-> stream.title]

\* part_001 lines 136-140, index.ts lines 190-214: fetchStreamData returns
\* data[0]; with a stream the handler returns its Streamer, otherwise
\* fetchChannelData issues the channels request.
StreamJsonDone(g) ==
  /\ gpc[g] = "streamJson"
  /\ \E data \in DataArrays(StreamRecords(chanUser[g].id)) :
       /\ chanStream' = [chanStream EXCEPT ![g] = First(data)]
       /\ IF First(data) # Null
            THEN /\ Responds(g, ReturnedOne(StreamStreamer(chanUser[g], First(data))))
                 /\ chanLog' = [chanLog EXCEPT ![g] = Answered(g, "record")]
            ELSE /\ gpc' = [gpc EXCEPT ![g] = "channel"]
                 /\ chanLog' = [chanLog EXCEPT ![g] =
                                  Append(Answered(g, "empty"),
                                         [req |-> "channels", outcome |-> "sent"])]
                 /\ UNCHANGED chanResult
  /\ UNCHANGED <<chanName, chanUser, chanChannel>>
  /\ UNCHANGED <<now, cacheOnly, followOnly, searchOnly>>

ChannelResponse(g, status) == HelixResponse(g, "channel", "channelJson", status)

\* ChannelStreamer marking the channel live.
ChannelStreamer_Live(user, channel) ==
  [channelId |-> user.id,
   displayName |-> user.display_name,
   loginName |-> user.login,
   profileImageUrl |-> user.profile_image_url,
   gameName |-> channel.game_name,
   title |-> channel.title,
   viewers |-> 0,
   isLive |-> TRUE]

\* index.ts lines 220-229: the Streamer of a user and its channel metadata
ChannelStreamer(user, channel) ==
  [channelId |-> user.id,
   displayName |-> user.display_name,
   loginName |-> user.login,
   profileImageUrl |-> user.profile_image_url,
   gameName |-> channel.game_name,
   title |-> channel.title,
   viewers |-> 0,
   isLive |-> FALSE]

\* part_001 lines 216-220, index.ts lines 211-233: fetchChannelData returns
\* data[0]; without channel metadata the handler throws NotFoundError,
\* otherwise it returns the Streamer of the user and the metadata.
ChannelJsonDone(g) ==
  /\ gpc[g] = "channelJson"
  /\ \E data \in DataArrays({ChannelRecord(chanUser[g].id)}) :
       /\ chanChannel' = [chanChannel EXCEPT ![g] = First(data)]
       /\ IF First(data) = Null
            THEN /\ Responds(g, NotFoundError)
                 /\ chanLog' = [chanLog EXCEPT ![g] = Answered(g, "empty")]
            ELSE /\ Responds(g, ReturnedOne(ChannelStreamer(chanUser[g], First(data))))
                 /\ chanLog' = [chanLog EXCEPT ![g] = Answered(g, "record")]
  /\ UNCHANGED <<chanName, chanUser, chanStream>>
  /\ UNCHANGED <<now, cacheOnly, followOnly, searchOnly>>

ChannelNext ==
  \/ \E g \in Lookups : LookupStarts(g)
  \/ \E g \in Lookups, status \in HelixStatuses : UserResponse(g, status)
  \/ \E g \in Lookups : UserJsonDone(g)
  \/ \E g \in Lookups, status \in HelixStatuses : StreamResponse(g, status)
  \/ \E g \in Lookups : StreamJsonDone(g)
  \/ \E g \in Lookups, status \in HelixStatuses : ChannelResponse(g, status)
  \/ \E g \in Lookups : ChannelJsonDone(g)

----------------------------------------------------------------------------
(* searchStreams *)

\* The search results the upstream may return (SearchData, lines 49-61):
\* at most MaxResults channels, each once.
SearchIds == {"ida", "idb", "idc", "idd"}
MaxResults == 3
SearchRecord(id) ==
  [id |-> id,
   broadcaster_login |->
     CASE id = "ida" -> "a" [] id = "idb" -> "b" [] id = "idc" -> "c" [] OTHER -> "d",
   display_name |->
     CASE id = "ida" -> "A" [] id = "idb" -> "B" [] id = "idc" -> "C" [] OTHER -> "D",
   game_name |-> "game of search",
   is_live |-> TRUE,
   thumbnail_url |->
     CASE id = "ida" -> "img a" [] id = "idb" -> "img b"
       [] id = "idc" -> "img c" [] OTHER -> "img d",
   title |-> "title of search"]
SearchLists ==
  {l \in UNION {[1..n -> SearchIds] : n \in 0..MaxResults} :
     \A i, j \in DOMAIN l : i # j => l[i] # l[j]}

\* One fetchStreamData call of the fan-out: awaiting the response, awaiting
\* the body, or resolved with data[0].
Awaiting(at) == [at |-> at, stream |-> Null]
Fetched(stream) == [at |-> "resolved", stream |-> stream]

\* searchStreams ends, returning or throwing res.
SearchEnds(res) ==
  /\ spc' = "done"
  /\ searchResult' = res

\* lines 143-158: the call starts and issues the search request.
SearchStarts ==
  /\ spc = "idle"
  /\ spc' = "search"
  /\ UNCHANGED <<searchData, streamData, searchResult>>
  /\ UNCHANGED <<now, cacheOnly, followOnly, channelOnly>>

\* lines 160-166: the search endpoint answers.
SearchResponse(status) ==
  /\ spc = "search"
  /\ IF NotOk(status)
       THEN SearchEnds(Thrown("UpstreamError", 500))
       ELSE spc' = "searchJson" /\ UNCHANGED searchResult
  /\ UNCHANGED <<searchData, streamData>>
  /\ UNCHANGED <<now, cacheOnly, followOnly, channelOnly>>

\* lines 166-175, 120-128: the body is parsed and one fetchStreamData request
\* per result is issued, for the result's id.
SearchJsonDone ==
  /\ spc = "searchJson"
  /\ \E l \in SearchLists :
       /\ searchData' = [i \in DOMAIN l |-> SearchRecord(l[i])]
       /\ streamData' = [i \in DOMAIN l |-> Awaiting("fetch")]
  /\ spc' = "fanout"
  /\ UNCHANGED searchResult
  /\ UNCHANGED <<now, cacheOnly, followOnly, channelOnly>>

\* lines 130-136: the streams endpoint answers request i. A non-success
\* status throws, which rejects Promise.all and so the call.
StreamFetched(i, status) ==
  /\ spc = "fanout"
  /\ i \in DOMAIN streamData
  /\ streamData[i].at = "fetch"
  /\ IF NotOk(status)
       THEN SearchEnds(Thrown("UpstreamError", 500)) /\ UNCHANGED streamData
       ELSE /\ streamData' = [streamData EXCEPT ![i] = Awaiting("json")]
            /\ UNCHANGED <<spc, searchResult>>
  /\ UNCHANGED searchData
  /\ UNCHANGED <<now, cacheOnly, followOnly, channelOnly>>

\* lines 136-140, 172: the body of response i is parsed; fetchStreamData i
\* returns data[0], the stream of the id it asked for or undefined.
StreamParsed(i) ==
  /\ spc = "fanout"
  /\ i \in DOMAIN streamData
  /\ streamData[i].at = "json"
  /\ \E data \in DataArrays(StreamRecords(searchData[i].id)) :
       streamData' = [streamData EXCEPT ![i] = Fetched(First(data))]
  /\ UNCHANGED <<spc, searchData, searchResult>>
  /\ UNCHANGED <<now, cacheOnly, followOnly, channelOnly>>

\* SearchStreamer without the stream that was fetched for the result.
SearchStreamer_NoStream(stream, sd) ==
  [channelId |-> stream.id,
   loginName |-> stream.broadcaster_login,
   displayName |-> stream.display_name,
   profileImageUrl |-> stream.thumbnail_url,
   gameName |-> stream.game_name,
   viewers |-> 0,
   isLive |-> stream.is_live,
   title |-> ""]

\* lines 177-186: the Streamer of one search result and the stream fetched
\* for it; `?.` and `||` give 0 and '' without a stream (and for a
\* viewer_count of 0 or an empty title).
SearchStreamer(stream, sd) ==
  [channelId |-> stream.id,
   loginName |-> stream.broadcaster_login,
   displayName |-> stream.display_name,
   profileImageUrl |-> stream.thumbnail_url,
   gameName |-> stream.game_name,
   viewers |-> IF sd = Null \/ sd.viewer_count = 0 THEN 0 ELSE sd.viewer_count,
   isLive |-> stream.is_live,
   title |-> IF sd = Null \/ sd.title = "" THEN "" ELSE sd.title]

\* line 190: Array.prototype.sort with (a, b) => b.viewers - a.viewers, a
\* stable sort: x goes behind every element that has at least its viewers.
RECURSIVE InsertByViewers(_, _)
InsertByViewers(sorted, x) ==
  IF sorted = <<>>
    THEN <<x>>
    ELSE IF Head(sorted).viewers - x.viewers >= 0
      THEN <<Head(sorted)>> \o InsertByViewers(Tail(sorted), x)
      ELSE <<x>> \o sorted

\* SortByViewers leaving the list as Promise.all gave it.
SortByViewers_Unsorted(list) == list

RECURSIVE SortByViewers(_)
SortByViewers(list) ==
  IF list = <<>>
    THEN <<>>
    ELSE InsertByViewers(SortByViewers(SubSeq(list, 1, Len(list) - 1)),
                         list[Len(list)])

\* lines 170-190: every callback has returned its Streamer; Promise.all
\* resolves with them in list order, and the sorted list is returned.
SearchDone ==
  /\ spc = "fanout"
  /\ \A i \in DOMAIN streamData : streamData[i].at = "resolved"
  /\ SearchEnds(Returned(SortByViewers(
       [i \in DOMAIN searchData |-> SearchStreamer(searchData[i], streamData[i].stream)])))
  /\ UNCHANGED <<searchData, streamData>>
  /\ UNCHANGED <<now, cacheOnly, followOnly, channelOnly>>

SearchNext ==
  \/ SearchStarts
  \/ \E status \in HelixStatuses : SearchResponse(status)
  \/ SearchJsonDone
  \/ \E i \in 1..MaxResults, status \in HelixStatuses : StreamFetched(i, status)
  \/ \E i \in 1..MaxResults : StreamParsed(i)
  \/ SearchDone

----------------------------------------------------------------------------
(* Specifications. The cache, the refresh protocol, the channel lookup and *)
(* the search share no state but the clock, so each is explored with the   *)
(* others at rest.                                                         *)

\* The state at process start: an empty cache, no request running, no
\* account linked yet.
Init ==
  /\ now = 0
  /\ cachedToken = Null
  /\ tokenExpiryTime = Null
  /\ issuedAt = Null
  /\ mpc = [r \in Reqs |-> "idle"]
  /\ mdata = [r \in Reqs |-> Null]
  /\ twitch = [r \in Reqs |-> Null]
  /\ handed = [r \in Reqs |-> Null]
  /\ account = Null
  /\ fpc = [c \in Calls |-> "idle"]
  /\ userAccessToken = [c \in Calls |-> NoToken]
  /\ found = [c \in Calls |-> Null]
  /\ twitchData = [c \in Calls |-> Null]
  /\ followedStreams = [c \in Calls |-> <<>>]
  /\ userData = [c \in Calls |-> <<>>]
  /\ result = [c \in Calls |-> Null]
  /\ gen = [c \in Calls |-> 0]
  /\ trace = [c \in Calls |-> <<>>]
  /\ gpc = [g \in Lookups |-> "idle"]
  /\ chanName = [g \in Lookups |-> ""]
  /\ chanUser = [g \in Lookups |-> Null]
  /\ chanStream = [g \in Lookups |-> Null]
  /\ chanChannel = [g \in Lookups |-> Null]
  /\ chanResult = [g \in Lookups |-> Null]
  /\ chanLog = [g \in Lookups |-> <<>>]
  /\ spc = "idle"
  /\ searchData = <<>>
  /\ streamData = <<>>
  /\ searchResult = Null

Next == CacheNext \/ FollowNext \/ ChannelNext \/ SearchNext

Spec == Init /\ [][Next]_vars

CacheSpec == Init /\ [][CacheNext]_vars

FollowSpec == Init /\ [][FollowNext]_vars

ChannelSpec == Init /\ [][ChannelNext]_vars

SearchSpec == Init /\ [][SearchNext]_vars

\* Every await of a running call resolves in the end: the upstream and the
\* store answer each request, and the resumed code runs to its next await.
CallStep(c) ==
  \/ \E status \in FollowedStatuses : FollowedResponse(c, status)
  \/ FindAccountDone(c)
  \/ \E status \in RefreshStatuses : RefreshResponse(c, status)
  \/ RefreshJsonDone(c)
  \/ UpdateDone(c)
  \/ FollowedJsonDone(c)
  \/ \E i \in 1..MaxStreams, o \in UserOutcomes : UserResolved(c, i, o)
  \/ FanoutDone(c)

FollowLive == FollowSpec /\ \A c \in Calls : WF_vars(CallStep(c))

----------------------------------------------------------------------------
(* Properties of the app-token cache (checked under CacheSpec) *)

\* The token requests in flight: issued and not yet answered.
InFlight == {r \in Reqs : mpc[r] = "fetch"}

\* C1: at most one upstream app-token request is in flight at any time;
\* requests that arrive during a refresh wait for it instead of issuing
\* their own.
C1_SingleFlight == Cardinality(InFlight) <= 1

\* The lifetime the cache keeps a credential for: min(expires_in * 1000,
\* 24 h), counted from issuedAt.
CachedTtlMs == ExpiresInMs(cachedToken)

\* C5: a token request is issued only when no credential is cached or
\* now >= issuedAt + ttl - EXPIRY_BUFFER; a request that finds a credential
\* with at least one buffer of validity left issues none.
C5_RefreshOnlyWhenStale ==
  [][\A r \in Reqs :
       IssueTokenRequest(r) =>
         \/ cachedToken = Null
         \/ now >= issuedAt.ms + CachedTtlMs - EXPIRY_BUFFER]_vars

C7_CacheLifetime ==
  cachedToken # Null =>
    (CacheHit(now) <=> now - issuedAt.ms < CachedTtlMs - EXPIRY_BUFFER)

----------------------------------------------------------------------------
(* Properties of the refresh protocol (checked under FollowSpec) *)

\* The places of the events named e in a history, and their number.
Places(t, e) == {i \in DOMAIN t : t[i].ev = e}
Count(t, e) == Cardinality(Places(t, e))

\* The place of the n-th event named e (0 when there are fewer).
Nth(t, e, n) ==
  IF \E i \in Places(t, e) : Cardinality({j \in Places(t, e) : j <= i}) = n
    THEN CHOOSE i \in Places(t, e) : Cardinality({j \in Places(t, e) : j <= i}) = n
    ELSE 0

\* The status of the n-th followed-streams response of call c (0 when it
\* has not arrived).
FollowedStatus(c, n) ==
  IF Nth(trace[c], "status", n) = 0 THEN 0 ELSE trace[c][Nth(trace[c], "status", n)].arg

\* The history of call c is complete: nothing was dropped at MaxTrace.
Complete(c) == Len(trace[c]) < MaxTrace

\* The last event of the (non-empty) history of call c.
Last(c) == trace[c][Len(trace[c])]

\* C2: when the retry after a successful refresh fails with 401 too, the
\* call ends with UpstreamError, with no second refreshUserToken call, no
\* second store write and no third followed-streams request.
C2_SecondAuthFailureEnds ==
  \A c \in Calls :
    FollowedStatus(c, 2) = 401 =>
      /\ fpc[c] = "done"
      /\ result[c] = Thrown("UpstreamError", 500)
      /\ Count(trace[c], "refresh") <= 1
      /\ Count(trace[c], "write") <= 1
      /\ Count(trace[c], "followed") <= 2

\* C3: every call that has started ends, with a result or a failure.
C3_EveryCallEnds ==
  \A c \in Calls : (fpc[c] # "idle") ~> (fpc[c] = "done")

\* C4: a call whose first followed-streams request failed with 401 and whose
\* retry did not has made exactly one refreshUserToken call, one store write
\* and one retry, the write coming after the refresh and before the retry.
C4_OneRefreshOneRetry ==
  \A c \in Calls :
    (FollowedStatus(c, 1) = 401 /\ FollowedStatus(c, 2) \notin {0, 401}) =>
      /\ Count(trace[c], "refresh") = 1
      /\ Count(trace[c], "write") = 1
      /\ Count(trace[c], "followed") = 2
      /\ Nth(trace[c], "refresh", 1) < Nth(trace[c], "write", 1)
      /\ Nth(trace[c], "write", 1) < Nth(trace[c], "followed", 2)

\* A call ended with its Streamers after one 401, one refresh and a retry
\* that the upstream accepted.
C4_Witness ==
  \E c \in Calls :
    /\ fpc[c] = "done" /\ result[c].kind = "Streamers" /\ result[c].value # <<>>
    /\ FollowedStatus(c, 1) = 401 /\ FollowedStatus(c, 2) = 200

\* C8: the stored access token and the stored refresh token of the account
\* come from the same token response.
C8_StoredPairFromOneResponse ==
  (account # Null /\ account.refreshToken # NoToken) =>
    account.accessToken = account.refreshToken

\* The store lookup of call c found no usable refresh token.
FindMissed(c, i) == i \in DOMAIN trace[c] /\ trace[c][i] = Event("find", NoToken)

\* C9: a 401 followed by a lookup that finds no account or no refresh token
\* ends the call with MissingRefreshToken: the lookup is the call's last
\* step, and it has made no refreshUserToken call, no write and no retry.
C9_MissingRefreshToken ==
  \A c \in Calls :
    /\ \A i \in DOMAIN trace[c] :
         FindMissed(c, i) =>
           /\ i = Len(trace[c])
           /\ trace[c][i - 1] = Event("status", 401)
           /\ fpc[c] = "done"
           /\ result[c] = Thrown("MissingRefreshToken", 500)
           /\ Count(trace[c], "refresh") = 0
           /\ Count(trace[c], "write") = 0
           /\ Count(trace[c], "followed") = 1
    /\ (fpc[c] = "find" /\ Complete(c)) => Last(c) = Event("status", 401)
    /\ (result[c] # Null /\ result[c].kind = "MissingRefreshToken" /\ Complete(c)) =>
         FindMissed(c, Len(trace[c]))

\* Both calls ended with MissingRefreshToken, the later one at least on a
\* row that holds no refresh token.
C9_Witness ==
  /\ account # Null /\ account.refreshToken = NoToken
  /\ \A c \in Calls : result[c] = Thrown("MissingRefreshToken", 500)

\* C10: refreshUserToken fails with InvalidRefreshToken exactly on a 400 and
\* with UpstreamError on every other non-success status; the failure is the
\* failure of the call, and no write and no retry follow it.
C10_RefreshFailureSurfaces ==
  \A c \in Calls :
    /\ \A i \in DOMAIN trace[c] :
         (trace[c][i].ev = "refreshStatus" /\ trace[c][i].arg # 200) =>
           /\ i = Len(trace[c])
           /\ fpc[c] = "done"
           /\ result[c] = IF trace[c][i].arg = 400
                             THEN Thrown("InvalidRefreshToken", 400)
                             ELSE Thrown("UpstreamError", 500)
           /\ Count(trace[c], "write") < Count(trace[c], "refresh")
    /\ (result[c] # Null /\ result[c].kind = "InvalidRefreshToken" /\ Complete(c)) =>
         Last(c) = Event("refreshStatus", 400)

\* One call ended with InvalidRefreshToken on a 400, the other with
\* UpstreamError on another refusal of the token endpoint, and the store
\* still holds the pair issued at login.
C10_Witness ==
  \E c1, c2 \in Calls :
    /\ result[c1] = Thrown("InvalidRefreshToken", 400)
    /\ Last(c1) = Event("refreshStatus", 400)
    /\ result[c2] = Thrown("UpstreamError", 500)
    /\ Last(c2).ev = "refreshStatus" /\ Last(c2).arg \in {401, 500}
    /\ account.accessToken = InitPair /\ account.refreshToken = InitPair

\* The status of the last followed-streams response of call c (0 when none
\* has arrived).
LastFollowedStatus(c) == FollowedStatus(c, Count(trace[c], "status"))

\* C11: what a call ends with is never AuthorizationError (a failure that
\* carries the upstream's 401): a call that ends on a 401 of the
\* followed-streams endpoint ends with MissingRefreshToken,
\* InvalidRefreshToken or UpstreamError, and any other 401 is followed by a
\* refresh and a retry.
C11_NoAuthorizationError ==
  \A c \in Calls :
    /\ result[c] # Null =>
         /\ result[c].kind # "AuthorizationError"
         /\ result[c].status # 401
         /\ (Complete(c) /\ LastFollowedStatus(c) = 401) =>
              /\ result[c].kind \in
                   {"MissingRefreshToken", "InvalidRefreshToken", "UpstreamError"}
              /\ Last(c).ev \in {"find", "refreshStatus"}
    /\ (fpc[c] = "done" /\ Complete(c) /\ Last(c).ev = "status") => Last(c).arg # 401

\* One call ended with UpstreamError because the token endpoint answered
\* its refresh with 401; the other ended with its Streamers after a 401.
C11_Witness ==
  \E c1, c2 \in Calls :
    /\ result[c1] = Thrown("UpstreamError", 500)
    /\ LastFollowedStatus(c1) = 401
    /\ Last(c1) = Event("refreshStatus", 401)
    /\ fpc[c2] = "done" /\ result[c2].kind = "Streamers"
    /\ FollowedStatus(c2, 1) = 401

----------------------------------------------------------------------------
(* Properties of GET /channels/:name (checked under ChannelSpec) *)

\* The endpoints lookup g has sent a request to, and what each came to.
Requests(g) == [i \in DOMAIN chanLog[g] |-> chanLog[g][i].req]
Outcomes(g) == [i \in DOMAIN chanLog[g] |-> chanLog[g][i].outcome]

\* C12: a lookup whose user exists and whose stream lookup returned a stream
\* has ended with a Streamer built from the user and the stream only
\* (viewers, title and gameName of the stream, isLive = (type = "live")),
\* and has sent no channel-metadata request.
C12_StreamFirst ==
  \A g \in Lookups :
    chanStream[g] # Null =>
      /\ gpc[g] = "done"
      /\ chanResult[g].kind = "Streamer"
      /\ chanResult[g].value =
           [channelId |-> chanUser[g].id,
            displayName |-> chanUser[g].display_name,
            loginName |-> chanUser[g].login,
            profileImageUrl |-> chanUser[g].profile_image_url,
            gameName |-> chanStream[g].game_name,
            viewers |-> chanStream[g].viewer_count,
            isLive |-> (chanStream[g].type = "live"),
            title |-> chanStream[g].title]
      /\ Requests(g) = <<"users", "streams">>
      /\ chanChannel[g] = Null

\* One lookup ended with the Streamer of a live stream with 120 viewers, the
\* other with that of a stream that is not of type "live".
C12_Witness ==
  \E g1, g2 \in Lookups :
    /\ gpc[g1] = "done" /\ chanResult[g1].kind = "Streamer"
    /\ chanResult[g1].value.viewers = 120 /\ chanResult[g1].value.isLive
    /\ chanResult[g1].value.title = chanStream[g1].title
    /\ gpc[g2] = "done" /\ chanResult[g2].kind = "Streamer"
    /\ chanStream[g2] # Null /\ chanStream[g2].type = ""
    /\ ~chanResult[g2].value.isLive

\* C13: a lookup whose stream lookup returned no record and whose
\* channel-metadata lookup returned one has ended with a Streamer with
\* viewers = 0, isLive = false, and title and gameName of the metadata.
C13_ChannelFallback ==
  \A g \in Lookups :
    Outcomes(g) = <<"record", "empty", "record">> =>
      /\ gpc[g] = "done"
      /\ chanStream[g] = Null
      /\ chanChannel[g] = ChannelRecord(chanUser[g].id)
      /\ chanResult[g].kind = "Streamer"
      /\ chanResult[g].value =
           [channelId |-> chanUser[g].id,
            displayName |-> chanUser[g].display_name,
            loginName |-> chanUser[g].login,
            profileImageUrl |-> chanUser[g].profile_image_url,
            gameName |-> chanChannel[g].game_name,
            title |-> chanChannel[g].title,
            viewers |-> 0,
            isLive |-> FALSE]

\* Both lookups, for different names, ended with the Streamer of a channel
\* without a stream.
C13_Witness ==
  /\ \A g \in Lookups :
       /\ Requests(g) = <<"users", "streams", "channels">>
       /\ gpc[g] = "done" /\ chanResult[g].kind = "Streamer"
       /\ chanResult[g].value.viewers = 0
       /\ chanResult[g].value.title = "title of channel"
  /\ \E g1, g2 \in Lookups : chanName[g1] # chanName[g2]

\* C14: a lookup fails with NotFound in exactly two cases: the user lookup
\* returned no record, and then no stream or channel request is sent; or
\* the user exists and the stream lookup and the channel-metadata lookup
\* both returned no record.
C14_NotFoundCases ==
  \A g \in Lookups :
    /\ (chanResult[g] # Null /\ chanResult[g].kind = "NotFound") <=>
         \/ Outcomes(g) = <<"empty">>
         \/ Outcomes(g) = <<"record", "empty", "empty">>
    /\ (chanResult[g] # Null /\ chanResult[g].kind = "NotFound") =>
         /\ gpc[g] = "done"
         /\ chanResult[g].status = 404
         /\ chanUser[g] = Null <=> Requests(g) = <<"users">>
         /\ chanUser[g] # Null <=> Requests(g) = <<"users", "streams", "channels">>
         /\ chanStream[g] = Null /\ chanChannel[g] = Null

\* One lookup failed with NotFound after the users request alone, the other
\* after all three requests.
C14_Witness ==
  \E g1, g2 \in Lookups :
    /\ chanResult[g1] = NotFoundError /\ Requests(g1) = <<"users">>
    /\ chanResult[g2] = NotFoundError
    /\ Requests(g2) = <<"users", "streams", "channels">>

----------------------------------------------------------------------------
(* Properties of searchStreams (checked under SearchSpec) *)

\* The call has returned its list.
SearchReturned == searchResult # Null /\ searchResult.kind = "Streamers"

\* The viewers of the elements of a list of Streamers.
ViewersOf(list) == [i \in DOMAIN list |-> list[i].viewers]

\* The Streamer of each search result, in the order of the search results.
PerResult ==
  [i \in DOMAIN searchData |-> SearchStreamer(searchData[i], streamData[i].stream)]

\* C15: the returned list is a permutation of the Streamers of the search
\* results, ordered by viewers non-increasing.
C15_SortedByViewers ==
  SearchReturned =>
    LET out == searchResult.value
    IN  /\ Len(out) = Len(PerResult)
        /\ \E p \in Permutations(DOMAIN PerResult) :
             \A i \in DOMAIN PerResult : out[i] = PerResult[p[i]]
        /\ \A i, j \in DOMAIN out : i < j => out[i].viewers >= out[j].viewers

\* Search results with viewers 5, 50 and 0, in that order, were returned in
\* the order 50, 5, 0.
C15_Witness ==
  /\ SearchReturned
  /\ ViewersOf(PerResult) = <<5, 50, 0>>
  /\ ViewersOf(searchResult.value) = <<50, 5, 0>>

\* C16: every stream fetched belongs to the channel id of its own search
\* result, and the returned list holds, for every search result, exactly
\* one Streamer, with the viewers and title of the stream fetched for that
\* result's id, or with viewers = 0 and title = "" when none was found.
C16_PairedWithOwnStream ==
  /\ \A i \in DOMAIN streamData :
       streamData[i].stream # Null => streamData[i].stream.user_id = searchData[i].id
  /\ SearchReturned =>
       LET out == searchResult.value
       IN  /\ Len(out) = Len(searchData)
           /\ \A i \in DOMAIN searchData :
                \E j \in DOMAIN out :
                  /\ out[j].channelId = searchData[i].id
                  /\ out[j].loginName = searchData[i].broadcaster_login
                  /\ \A k \in DOMAIN out : out[k].channelId = out[j].channelId => k = j
                  /\ IF streamData[i].stream = Null
                       THEN out[j].viewers = 0 /\ out[j].title = ""
                       ELSE /\ out[j].viewers = streamData[i].stream.viewer_count
                            /\ out[j].title = StreamTitle(searchData[i].id)

\* Three results were returned, of which the second of the search has no
\* stream and the other two have streams of their own with viewers.
C16_Witness ==
  /\ SearchReturned
  /\ Len(searchData) = 3
  /\ streamData[2].stream = Null
  /\ streamData[1].stream # Null /\ streamData[1].stream.viewer_count = 5
  /\ streamData[3].stream # Null /\ streamData[3].stream.viewer_count = 120
  /\ searchResult.value[3].channelId = searchData[2].id
  /\ searchResult.value[3].title = ""

----------------------------------------------------------------------------
(* Further properties of fetchFollowedStreams (checked under FollowSpec) *)

\* Call c returns its list in this step.
ReturnsList(c) ==
  /\ fpc[c] = "fanout"
  /\ fpc'[c] = "done"
  /\ result'[c].kind = "Streamers"

\* C17: a call that returns a list returns one Streamer per followed stream
\* the upstream returned, in the upstream's order whatever the order the
\* profile fetches completed in, each with isLive = true, with channelId,
\* names, title, gameName and viewers of the followed-stream record and the
\* profileImageUrl of the profile of that stream's login.
C17_FollowedStreamers ==
  [][\A c \in Calls :
       ReturnsList(c) =>
         /\ Len(result'[c].value) = Len(followedStreams[c])
         /\ \A i \in DOMAIN followedStreams[c] :
              result'[c].value[i] =
                [channelId |-> followedStreams[c][i].user_id,
                 displayName |-> followedStreams[c][i].user_name,
                 loginName |-> followedStreams[c][i].user_login,
                 profileImageUrl |-> ProfileImage(followedStreams[c][i].user_login),
                 gameName |-> followedStreams[c][i].game_name,
                 viewers |-> followedStreams[c][i].viewer_count,
                 isLive |-> TRUE,
                 title |-> followedStreams[c][i].title]]_vars

\* A call returned the Streamers of b and a, in that order, each with the
\* profile image of its own login.
C17_Witness ==
  \E c \in Calls :
    /\ fpc[c] = "done" /\ result[c].kind = "Streamers"
    /\ Len(result[c].value) = 2
    /\ result[c].value[1].loginName = "b"
    /\ result[c].value[1].profileImageUrl = ProfileImage("b")
    /\ result[c].value[1].viewers = 50
    /\ result[c].value[2].loginName = "a"
    /\ result[c].value[2].profileImageUrl = ProfileImage("a")
    /\ result[c].value[2].isLive

\* The tagged failures of the core's three operations.
TaggedFailures ==
  {"NotFound", "InvalidRefreshToken", "MissingRefreshToken", "UpstreamError"}

\* C18: each of the three operations ends with a Streamer, a list of
\* Streamers or one of the tagged failures NotFound, InvalidRefreshToken,
\* MissingRefreshToken, UpstreamError.
C18_TaggedOutcomes ==
  /\ \A c \in Calls :
       result[c] # Null => result[c].kind \in {"Streamers"} \cup TaggedFailures
  /\ \A g \in Lookups :
       chanResult[g] # Null => chanResult[g].kind \in {"Streamer"} \cup TaggedFailures
  /\ searchResult # Null => searchResult.kind \in {"Streamers"} \cup TaggedFailures

\* C19: a call whose first followed-streams request did not fail with 401
\* has made no refreshUserToken call, has neither read nor written the
\* account store and has sent the request once; when the request failed,
\* the call ended at once with UpstreamError.
C19_NoRefreshWithoutAuthFailure ==
  \A c \in Calls :
    FollowedStatus(c, 1) \notin {0, 401} =>
      /\ Count(trace[c], "refresh") = 0
      /\ Count(trace[c], "find") = 0
      /\ Count(trace[c], "write") = 0
      /\ Count(trace[c], "followed") = 1
      /\ NotOk(FollowedStatus(c, 1)) =>
           /\ fpc[c] = "done"
           /\ result[c] = Thrown("UpstreamError", 500)
           /\ Len(trace[c]) = 2

\* One call ended with UpstreamError on a 500 of its only request, the
\* other returned its list after a 200, and the account row still holds
\* the pair issued at login.
C19_Witness ==
  \E c1, c2 \in Calls :
    /\ FollowedStatus(c1, 1) = 500 /\ result[c1] = Thrown("UpstreamError", 500)
    /\ FollowedStatus(c2, 1) = 200 /\ fpc[c2] = "done"
    /\ result[c2].kind = "Streamers" /\ result[c2].value # <<>>
    /\ account # Null /\ account.accessToken = InitPair

\* The place of the last store write of call c before place j (0 if none).
LastWrite(c, j) ==
  IF \E i \in Places(trace[c], "write") : i < j
    THEN CHOOSE i \in Places(trace[c], "write") :
           i < j /\ \A k \in Places(trace[c], "write") : k < j => k <= i
    ELSE 0

\* C20: after a store write of a call, its next step is the retried
\* followed-streams request, and that request and every profile fetch up
\* to the next write carry the access token just written, which is not the
\* token the call was started with.
C20_NewTokenAfterRefresh ==
  \A c \in Calls :
    \A j \in DOMAIN trace[c] :
      /\ (trace[c][j].ev = "write" /\ j < Len(trace[c])) =>
           trace[c][j + 1] = Event("followed", trace[c][j].arg)
      /\ (trace[c][j].ev \in {"followed", "users"} /\ LastWrite(c, j) # 0) =>
           /\ trace[c][j].arg = trace[c][LastWrite(c, j)].arg
           /\ trace[c][j].arg # trace[c][1].arg

\* A call that was started with the token issued at login returned its list
\* after a refresh: the retry and the profile fetches carried the new token.
C20_Witness ==
  \E c \in Calls :
    /\ fpc[c] = "done" /\ result[c].kind = "Streamers"
    /\ trace[c][1] = Event("followed", InitPair)
    /\ \E i \in Places(trace[c], "write") :
         /\ trace[c][i].arg = PairId(c, 1)
         /\ trace[c][i + 1] = Event("followed", PairId(c, 1))
    /\ Last(c) = Event("users", PairId(c, 1))
    /\ account.accessToken = PairId(c, 1)

----------------------------------------------------------------------------
(* Failures of the list requests and of the fan-outs (checked under         *)
(* FollowSpec, the part on searchStreams under SearchSpec as well)         *)

\* Call c ends in this step with UpstreamError and no list, and the step
\* sends no request.
FollowFailsUpstream(c) ==
  /\ fpc'[c] = "done"
  /\ result'[c].kind = "UpstreamError"
  /\ result'[c].status = 500
  /\ result'[c].value = <<>>
  /\ Count(trace'[c], "followed") = Count(trace[c], "followed")
  /\ Count(trace'[c], "users") = Count(trace[c], "users")

\* searchStreams ends in this step with UpstreamError and no list, and the
\* step sends no request.
SearchFailsUpstream ==
  /\ spc' = "done"
  /\ searchResult'.kind = "UpstreamError"
  /\ searchResult'.status = 500
  /\ searchResult'.value = <<>>
  /\ UNCHANGED <<searchData, streamData>>

\* An operation that has ended takes no further step: it sends no request
\* and its result stays.
EndedIsFinal ==
  /\ \A c \in Calls :
       fpc[c] = "done" =>
         fpc'[c] = "done" /\ result'[c] = result[c] /\ trace'[c] = trace[c]
  /\ spc = "done" => UNCHANGED searchOnly

\* The failures of the sub-requests of the two fan-outs and of the search
\* request end the operation with UpstreamError.
FanoutFailuresEnd ==
  /\ \A c \in Calls, i \in 1..MaxStreams :
       UserResolved(c, i, "500") => FollowFailsUpstream(c)
  /\ \A status \in HelixStatuses :
       (SearchResponse(status) /\ status \notin 200..299) => SearchFailsUpstream
  /\ \A i \in 1..MaxResults, status \in HelixStatuses :
       (StreamFetched(i, status) /\ status \notin 200..299) => SearchFailsUpstream

----------------------------------------------------------------------------
(* Failure of the app-token request (checked under CacheSpec) *)

\* Request r takes a step of a call that fails: it issues the token
\* request, gets the non-success answer, or ends after it.
FailingCallStep(r) ==
  \/ IssueTokenRequest(r)
  \/ TokenRequestFails(r)
  \/ mpc[r] = "failed" /\ RequestEnds(r)

\* C22: a request whose token request gets a non-success status fails
\* without running the downstream handler, and no step of it changes the
\* cached credential or the recorded expiry.
C22_FailedRequestLeavesCache ==
  [][\A r \in Reqs :
       /\ (mpc[r] = "fetch" /\ mpc'[r] # "json") => mpc'[r] \in {"fetch", "failed"}
       /\ mpc[r] = "failed" =>
            /\ twitch[r] = Null /\ handed[r] = Null
            /\ mpc'[r] \in {"failed", "idle"}
       /\ FailingCallStep(r) =>
            /\ cachedToken' = cachedToken
            /\ tokenExpiryTime' = tokenExpiryTime
            /\ twitch'[r] = Null]_vars

\* A request has failed while the cache holds a credential that is no
\* longer served, and the other request is being served a fresh one.
C22_Witness ==
  \E r1, r2 \in Reqs :
    /\ mpc[r1] = "failed" /\ twitch[r1] = Null
    /\ cachedToken # Null /\ ~CacheHit(now)
    /\ mpc[r2] = "next" /\ handed[r2].from = "fresh"

====
